---- MODULE Spec2Model ----
(***************************************************************************)
(* Voice Translator (src/app.py): the live translation loop, its start and *)
(* stop controls, and the batch / typed-text pipeline.                     *)
(*                                                                         *)
(* app.py is a Streamlit script.  Every UI request (a button click) is one *)
(* execution of the whole script from its first line, in a new __main__    *)
(* namespace: line 357 binds _live_flag to a new dict {'run': False} in    *)
(* every execution.  A live_loop thread keeps the globals of the execution *)
(* that defined its function, so it reads the _live_flag dict of the       *)
(* execution that spawned it.  flag[t] is that dict's 'run' entry.         *)
(*                                                                         *)
(* External services (microphone, speech recognition, translator, speech   *)
(* synthesis, transcoder, player) are the environment: every call draws    *)
(* its outcome from a small set.                                           *)
(***************************************************************************)
EXTENDS Integers, Sequences, FiniteSets, TLC

\* Bounds of the model
MaxThreads == 2
MaxBatch == 3
MaxClock == 1

VARIABLES
  stt_backend,      \* sidebar: "Google" or "Whisper"              (line 74)
  tts_choice,       \* sidebar: "gTTS" or "pyttsx3"                (line 82)
  use_lang_detect,  \* sidebar checkbox                            (line 84)
  save_output,      \* sidebar checkbox                            (line 85)
  has_pyttsx3,      \* import pyttsx3 succeeded                    (lines 36-40)
  has_whisper,      \* import whisper succeeded                    (lines 43-47)
  cwd_is_tempdir,   \* os.getcwd() is tempfile.gettempdir()        (line 348)
  pc,               \* per live_loop thread: its position
  flag,             \* per live_loop thread: _live_flag['run'] of its globals
  src_text,         \* live_loop locals
  detected,
  translated,
  tts_file,
  ev,               \* per live_loop thread: what its last step called and showed
  playing,          \* artifacts with a play_audio_file worker running
  pev,              \* what the last finished play_audio_file worker showed
  ui,               \* what the last Start / Stop execution showed
  script,           \* position of the Start execution: "idle", or "spawned" (between lines 429 and 430)
  stopped,          \* history: threads that were alive when Stop was clicked
  bpc,              \* the "Run Translation Pipeline" execution: its position
  inputs,           \* batch: the audio inputs, in order
  results,          \* batch: results list (line 293)
  logs,             \* batch: per processed item, what it called and showed
  rendered,         \* batch / typed text: what the page shows per result
  typed,            \* typed text run: its outcome record
  now,              \* int(time.time()) during the pipeline execution
  probe             \* a helper called on its own: its arguments and result

cfgvars   == <<stt_backend, tts_choice, use_lang_detect, save_output, has_pyttsx3, has_whisper, cwd_is_tempdir>>
livevars  == <<pc, flag, src_text, detected, translated, tts_file, ev, playing, pev, ui, script, stopped>>
batchvars == <<bpc, inputs, results, logs, rendered, typed, now>>
vars      == <<cfgvars, livevars, batchvars, probe>>

Threads == 1..MaxThreads
None == "None"

\* What the recorded audio holds, and what an external call does
AudioKinds == {"speech", "silence", "unreadable"}
Outcomes   == {"ok", "fail"}

\* Entries of a step's log: a warning / error shown, or a backend invoked
Warn(what, arg) == [kind |-> "warning", what |-> what, arg |-> arg]
Err(what)       == [kind |-> "error", what |-> what, arg |-> ""]
Success(what)   == [kind |-> "success", what |-> what, arg |-> ""]
Call(what, arg) == [kind |-> "call", what |-> what, arg |-> arg]
\* An external call that raised
Fault(what)     == [kind |-> "fault", what |-> what, arg |-> ""]

\* A call's result: the value returned, or an exception propagating
Ret(val, log) == [raised |-> FALSE, val |-> val, log |-> log]
Raised(log)   == [raised |-> TRUE, val |-> None, log |-> log]

(***************************************************************************)
(* Helpers (lines 104-181)                                                 *)
(***************************************************************************)

\* sr.AudioFile / r.record are outside the try: an unreadable file raises.
recognize_with_google(audio, o) ==
  IF audio = "unreadable" THEN Raised(<<Fault("AudioFile")>>)
  ELSE IF o = "fail"
    THEN Ret("", <<Call("recognize_google", audio), Fault("recognize_google"),
                   Warn("Google STT error", "")>>)
  ELSE IF audio = "silence" THEN Ret("", <<Call("recognize_google", audio)>>)
  ELSE Ret("hello", <<Call("recognize_google", audio)>>)

recognize_with_whisper(audio, o) ==
  IF ~has_whisper THEN Ret("", <<Warn("Whisper not installed", "")>>)
  ELSE IF audio = "unreadable" \/ o = "fail"
    THEN Ret("", <<Call("whisper", audio), Fault("whisper"), Warn("Whisper error", "")>>)
  ELSE IF audio = "silence" THEN Ret("", <<Call("whisper", audio)>>)
  ELSE Ret("hello", <<Call("whisper", audio)>>)

\* What the translation service answers
Translation(text) == IF text = "hello" THEN "hola" ELSE "buenos dias"

\* Mutant: no test of the text before the backend is called
translate_text_NoGuard(text, o) ==
  IF o = "ok" THEN Ret(Translation(text), <<Call("GoogleTranslator", text)>>)
  ELSE Ret("", <<Call("GoogleTranslator", text), Fault("GoogleTranslator"),
                 Warn("Translation error", "")>>)

translate_text(text, o) ==
  IF text = "" THEN Ret("", <<>>)
  ELSE IF o = "ok" THEN Ret(Translation(text), <<Call("GoogleTranslator", text)>>)
  ELSE Ret("", <<Call("GoogleTranslator", text), Fault("GoogleTranslator"),
                 Warn("Translation error", "")>>)

detect_language(text, o) ==
  IF o = "ok" THEN Ret("en", <<Call("detect", text)>>)
  ELSE Ret(None, <<Call("detect", text), Fault("detect")>>)

tts_gtts_and_save(text, out_path, o) ==
  IF text = "" THEN Ret(None, <<>>)
  ELSE IF o = "ok" THEN Ret(out_path, <<Call("gTTS", text)>>)
  ELSE Ret(None, <<Call("gTTS", text), Fault("gTTS"), Warn("gTTS error", "")>>)

tts_pyttsx3_and_save(text, out_path, o) ==
  IF ~has_pyttsx3 THEN Ret(None, <<Warn("pyttsx3 not installed", "")>>)
  ELSE IF o = "ok" THEN Ret(out_path, <<Call("pyttsx3", text)>>)
  ELSE Ret(None, <<Call("pyttsx3", text), Fault("pyttsx3"), Warn("pyttsx3 error", "")>>)

play_audio_file(path, o) ==
  IF o = "ok" THEN Ret(None, <<Call("play", path)>>)
  ELSE Ret(None, <<Call("play", path), Fault("play"), Warn("Audio playback error", path)>>)

(***************************************************************************)
(* live_loop (lines 359-420)                                               *)
(***************************************************************************)

\* STT of the chunk just written (lines 378-381)
live_stt(audio, o) ==
  IF stt_backend = "Google" THEN recognize_with_google(audio, o)
  ELSE recognize_with_whisper(audio, o)

\* TTS of the translation (lines 399-411); the transcoding failure is passed over
live_tts(text, o, conv) ==
  IF tts_choice = "gTTS" THEN tts_gtts_and_save(text, "live.mp3", o)
  ELSE LET r == tts_pyttsx3_and_save(text, "live.wav", o) IN
       IF r.val # None
       THEN IF conv = "ok"
            THEN Ret("live.mp3", r.log \o <<Call("transcode", r.val)>>)
            ELSE Ret(r.val, r.log \o <<Call("transcode", r.val), Fault("transcode")>>)
       ELSE r

Alive(t) == pc[t] \notin {"idle", "done", "crashed"}
LiveThreads == {t \in Threads : Alive(t)}

Goto(t, loc) == pc' = [pc EXCEPT ![t] = loc]
Show(t, log) == ev' = [ev EXCEPT ![t] = log]

\* Mutant: the exception ends the loop
HandleCycleError_Fatal(t, log) ==
  /\ Goto(t, "crashed")
  /\ Show(t, log)
  /\ UNCHANGED flag

\* Mutant: the handler also clears the run flag
HandleCycleError_ClearsFlag(t, log) ==
  /\ Goto(t, "backoff")
  /\ Show(t, log \o <<Warn("Live loop error", "")>>)
  /\ flag' = [flag EXCEPT ![t] = FALSE]

\* except Exception (lines 418-419): warn; the sleep(1) is the "backoff" position
HandleCycleError(t, log) ==
  /\ Goto(t, "backoff")
  /\ Show(t, log \o <<Warn("Live loop error", "")>>)
  /\ UNCHANGED flag

\* lines 360-367
LiveMic(t) ==
  /\ pc[t] = "mic"
  /\ \E o \in Outcomes :
       IF o = "ok"
       THEN Goto(t, "open") /\ Show(t, <<>>) /\ UNCHANGED flag
       ELSE /\ Goto(t, "done")
            /\ Show(t, <<Fault("Microphone"), Err("Microphone not available")>>)
            /\ flag' = [flag EXCEPT ![t] = FALSE]
  /\ UNCHANGED <<probe, cfgvars, batchvars, src_text, detected, translated, tts_file, playing, pev, ui, script, stopped>>

\* lines 369-370: outside any try, a failure ends the thread
LiveOpen(t) ==
  /\ pc[t] = "open"
  /\ \E o \in Outcomes :
       IF o = "ok"
       THEN Goto(t, "check") /\ Show(t, <<>>)
       ELSE Goto(t, "crashed") /\ Show(t, <<Fault("open")>>)
  /\ UNCHANGED <<probe, cfgvars, batchvars, flag, src_text, detected, translated, tts_file, playing, pev, ui, script, stopped>>

\* line 371; the locals of the cycle before are dead: every one is assigned
\* before it is read
LiveCheck(t) ==
  /\ pc[t] = "check"
  /\ IF flag[t] THEN Goto(t, "capture") ELSE Goto(t, "done")
  /\ Show(t, <<>>)
  /\ src_text' = [src_text EXCEPT ![t] = None]
  /\ detected' = [detected EXCEPT ![t] = None]
  /\ translated' = [translated EXCEPT ![t] = None]
  /\ tts_file' = [tts_file EXCEPT ![t] = None]
  /\ UNCHANGED <<probe, cfgvars, batchvars, flag, playing, pev, ui, script, stopped>>

\* lines 373-376
LiveCapture(t) ==
  /\ pc[t] = "capture"
  /\ \E o \in Outcomes :
       IF o = "ok"
       THEN Goto(t, "stt") /\ Show(t, <<>>) /\ UNCHANGED flag
       ELSE HandleCycleError(t, <<Fault("capture")>>)
  /\ UNCHANGED <<probe, cfgvars, batchvars, src_text, detected, translated, tts_file, playing, pev, ui, script, stopped>>

\* Mutant: no test of the transcript (line 383)
LiveStt_NoEmptyTest(t) ==
  /\ pc[t] = "stt"
  /\ \E audio \in AudioKinds, o \in Outcomes :
       LET r == live_stt(audio, o) IN
       IF r.raised
       THEN HandleCycleError(t, r.log) /\ UNCHANGED src_text
       ELSE /\ src_text' = [src_text EXCEPT ![t] = r.val]
            /\ Show(t, r.log)
            /\ UNCHANGED flag
            /\ Goto(t, IF use_lang_detect THEN "detect" ELSE "translate")
  /\ UNCHANGED <<probe, cfgvars, batchvars, detected, translated, tts_file, playing, pev, ui, script, stopped>>

\* lines 378-390
LiveStt(t) ==
  /\ pc[t] = "stt"
  /\ \E audio \in AudioKinds, o \in Outcomes :
       LET r == live_stt(audio, o) IN
       IF r.raised
       THEN HandleCycleError(t, r.log) /\ UNCHANGED src_text
       ELSE /\ src_text' = [src_text EXCEPT ![t] = r.val]
            /\ Show(t, r.log)
            /\ UNCHANGED flag
            /\ Goto(t, IF r.val = "" THEN "sleep_empty"
                       ELSE IF use_lang_detect THEN "detect" ELSE "translate")
  /\ UNCHANGED <<probe, cfgvars, batchvars, detected, translated, tts_file, playing, pev, ui, script, stopped>>

\* lines 385-386
LiveSleepEmpty(t) ==
  /\ pc[t] = "sleep_empty"
  /\ Goto(t, "check")
  /\ Show(t, <<>>)
  /\ UNCHANGED <<probe, cfgvars, batchvars, flag, src_text, detected, translated, tts_file, playing, pev, ui, script, stopped>>

\* line 390
LiveDetect(t) ==
  /\ pc[t] = "detect"
  /\ \E o \in Outcomes :
       LET r == detect_language(src_text[t], o) IN
       /\ detected' = [detected EXCEPT ![t] = r.val]
       /\ Show(t, r.log)
  /\ Goto(t, "translate")
  /\ UNCHANGED <<probe, cfgvars, batchvars, flag, src_text, translated, tts_file, playing, pev, ui, script, stopped>>

\* line 392
LiveTranslate(t) ==
  /\ pc[t] = "translate"
  /\ \E o \in Outcomes :
       LET r == translate_text(src_text[t], o) IN
       /\ translated' = [translated EXCEPT ![t] = r.val]
       /\ Show(t, r.log)
  /\ Goto(t, "show")
  /\ UNCHANGED <<probe, cfgvars, batchvars, flag, src_text, detected, tts_file, playing, pev, ui, script, stopped>>

\* lines 395-396
LiveShow(t) ==
  /\ pc[t] = "show"
  /\ \E o \in Outcomes :
       IF o = "ok"
       THEN Goto(t, "synth") /\ Show(t, <<>>) /\ UNCHANGED flag
       ELSE HandleCycleError(t, <<Fault("st.write")>>)
  /\ UNCHANGED <<probe, cfgvars, batchvars, src_text, detected, translated, tts_file, playing, pev, ui, script, stopped>>

\* lines 399-411
LiveSynth(t) ==
  /\ pc[t] = "synth"
  /\ \E o \in Outcomes, conv \in Outcomes :
       LET r == live_tts(translated[t], o, conv) IN
       /\ tts_file' = [tts_file EXCEPT ![t] = r.val]
       /\ Show(t, r.log)
  /\ Goto(t, "dispatch")
  /\ UNCHANGED <<probe, cfgvars, batchvars, flag, src_text, detected, translated, playing, pev, ui, script, stopped>>

\* lines 413-415
LiveDispatch(t) ==
  /\ pc[t] = "dispatch"
  /\ IF tts_file[t] # None
     THEN \E o \in Outcomes :
            IF o = "ok"
            THEN /\ playing' = playing \cup {tts_file[t]}
                 /\ Goto(t, "pause") /\ Show(t, <<>>) /\ UNCHANGED flag
            ELSE HandleCycleError(t, <<Fault("Thread.start")>>) /\ UNCHANGED playing
     ELSE Goto(t, "pause") /\ Show(t, <<>>) /\ UNCHANGED <<flag, playing>>
  /\ UNCHANGED <<probe, cfgvars, batchvars, src_text, detected, translated, tts_file, pev, ui, script, stopped>>

\* Mutant: the loop waits for the playback of its artifact before the pause
LivePause_Joins(t) ==
  /\ pc[t] = "pause"
  /\ tts_file[t] \notin playing
  /\ Goto(t, "check")
  /\ Show(t, <<>>)
  /\ UNCHANGED <<probe, cfgvars, batchvars, flag, src_text, detected, translated, tts_file, playing, pev, ui, script, stopped>>

\* line 417
LivePause(t) ==
  /\ pc[t] = "pause"
  /\ Goto(t, "check")
  /\ Show(t, <<>>)
  /\ UNCHANGED <<probe, cfgvars, batchvars, flag, src_text, detected, translated, tts_file, playing, pev, ui, script, stopped>>

\* line 420
LiveBackoff(t) ==
  /\ pc[t] = "backoff"
  /\ Goto(t, "check")
  /\ Show(t, <<>>)
  /\ UNCHANGED <<probe, cfgvars, batchvars, flag, src_text, detected, translated, tts_file, playing, pev, ui, script, stopped>>

live_loop(t) ==
  \/ LiveMic(t) \/ LiveOpen(t) \/ LiveCheck(t) \/ LiveCapture(t) \/ LiveStt(t)
  \/ LiveSleepEmpty(t) \/ LiveDetect(t) \/ LiveTranslate(t) \/ LiveShow(t)
  \/ LiveSynth(t) \/ LiveDispatch(t) \/ LivePause(t) \/ LiveBackoff(t)

\* A play_audio_file worker ends (lines 176-181).  playing is a set: other
\* workers may still be playing the same artifact.
PlayEnd ==
  /\ \E p \in playing, o \in Outcomes, last \in BOOLEAN :
       /\ pev' = play_audio_file(p, o).log
       /\ playing' = IF last THEN playing \ {p} ELSE playing
  /\ UNCHANGED <<probe, cfgvars, batchvars, pc, flag, src_text, detected, translated, tts_file, ev, ui, script, stopped>>

(***************************************************************************)
(* Batch and typed-text pipeline (lines 249-352): one script execution     *)
(***************************************************************************)

\* STT of one file (lines 251-254)
batch_stt(audio, o) ==
  IF stt_backend = "Google" THEN recognize_with_google(audio, o)
  ELSE recognize_with_whisper(audio, o)

\* lines 266-267 and 304-305: the name holds the clock's second
translated_path(ext) == "translated_" \o ToString(now) \o ext

\* TTS of one item (lines 266-281); the transcoding failure is passed over
batch_tts(text, o, conv) ==
  IF tts_choice = "gTTS" THEN tts_gtts_and_save(text, translated_path(".mp3"), o)
  ELSE LET r == tts_pyttsx3_and_save(text, translated_path(".wav"), o) IN
       IF r.val # None
       THEN IF conv = "ok"
            THEN Ret(translated_path(".mp3"), r.log \o <<Call("transcode", r.val)>>)
            ELSE Ret(r.val, r.log \o <<Call("transcode", r.val), Fault("transcode")>>)
       ELSE r

\* What the services do for one item
ItemOutcomes == [stt : Outcomes, det : Outcomes, tr : Outcomes, tts : Outcomes, conv : Outcomes]

\* lines 249-289: the result record, or the exception of recognize_with_google
process_single_file(audio, o) ==
  LET s == batch_stt(audio, o.stt) IN
  IF s.raised THEN Raised(s.log)
  ELSE IF s.val = ""
  THEN Ret([error |-> "STT failed or empty", source_text |-> "", translated |-> ""], s.log)
  ELSE LET d  == IF use_lang_detect THEN detect_language(s.val, o.det) ELSE Ret(None, <<>>)
           tr == translate_text(s.val, o.tr)
           y  == batch_tts(tr.val, o.tts, o.conv)
       IN Ret([error |-> None, source_text |-> s.val, detected_lang |-> d.val,
               translated |-> tr.val, tts_file |-> y.val],
              s.log \o d.log \o tr.log \o y.log)

\* lines 336-352: what the page shows for one result; sv: what os.replace
\* does; there: the artifact is still at its path when st.audio opens it.
\* When it is not, st.audio raises after the texts were written (line 345).
render(res, sv, there) ==
  IF res.error # None
  THEN [shown |-> "error", text |-> res.error, audio |-> None, saved |-> None]
  ELSE IF res.tts_file # None /\ ~there
  THEN [shown |-> "result", text |-> res.translated, audio |-> None, saved |-> None]
  ELSE [shown |-> "result", text |-> res.translated, audio |-> res.tts_file,
        saved |-> IF res.tts_file # None /\ save_output /\ sv = "ok"
                  THEN res.tts_file ELSE None]

\* The artifact of result k is at its path no more: the rendering of an
\* earlier result of the same path has moved it away (os.replace, line 349).
\* When the working directory is the temp directory, dest of line 348 is the
\* artifact's own path and os.replace leaves it there.
ArtifactMoved(k, sv) ==
  /\ save_output
  /\ ~cwd_is_tempdir
  /\ results[k].res.error = None
  /\ results[k].res.tts_file # None
  /\ \E j \in 1..(k - 1) :
       /\ results[j].res.error = None
       /\ results[j].res.tts_file = results[k].res.tts_file
       /\ sv[j] = "ok"

\* The first result whose st.audio raises (line 345, outside any try), or 0
FirstAudioRaise(sv) ==
  IF \E k \in 1..Len(results) : ArtifactMoved(k, sv)
  THEN CHOOSE k \in 1..Len(results) :
         ArtifactMoved(k, sv) /\ \A j \in 1..(k - 1) : ~ArtifactMoved(j, sv)
  ELSE 0

\* A script execution has ended (or none has run): the button can be clicked
BatchEnded == bpc \in {"rendered", "aborted", "render_aborted", "typed"}

\* The button is clicked again: a new execution starts, at lines 293-294
NewExecution ==
  /\ BatchEnded
  /\ bpc' = "idle"
  /\ inputs' = <<>>
  /\ results' = <<>>
  /\ logs' = <<>>
  /\ rendered' = <<>>
  /\ typed' = None
  /\ UNCHANGED <<probe, cfgvars, livevars, now>>

InputLists == UNION {[1..n -> AudioKinds] : n \in 0..MaxBatch}

\* "Run Translation Pipeline" clicked with audio inputs (lines 292-294, 319-325)
RunPipeline ==
  /\ bpc = "idle"
  /\ \E ins \in InputLists :
       /\ inputs' = ins
       /\ rendered' = IF ins = <<>> THEN <<Err("No audio inputs provided.")>> ELSE <<>>
  /\ bpc' = "loop"
  /\ results' = <<>>
  /\ logs' = <<>>
  /\ typed' = None
  /\ UNCHANGED <<probe, cfgvars, livevars, now>>

\* One turn of the loop of lines 329-331.  An exception leaves the loop and
\* the script execution: nothing after line 330 runs.
BatchItem ==
  /\ bpc = "loop"
  /\ Len(results) < Len(inputs)
  /\ LET i == Len(results) + 1 IN
     \E o \in ItemOutcomes :
       LET r == process_single_file(inputs[i], o) IN
       /\ logs' = Append(logs, r.log)
       /\ IF r.raised
          THEN bpc' = "aborted" /\ UNCHANGED results
          ELSE /\ results' = Append(results, [path |-> i, res |-> r.val])
               /\ UNCHANGED bpc
  /\ UNCHANGED <<probe, cfgvars, livevars, inputs, rendered, typed, now>>

\* lines 333-352.  The exception of st.audio leaves the loop and the script
\* execution: the results after it are not rendered.
BatchRender ==
  /\ bpc = "loop"
  /\ Len(results) = Len(inputs)
  /\ \E sv \in [1..Len(results) -> Outcomes] :
       LET f == FirstAudioRaise(sv)
           n == IF f = 0 THEN Len(results) ELSE f
       IN /\ rendered' = rendered \o
               [i \in 1..n |-> render(results[i].res, sv[i], ~ArtifactMoved(i, sv))]
          /\ bpc' = IF f = 0 THEN "rendered" ELSE "render_aborted"
  /\ UNCHANGED <<probe, cfgvars, livevars, inputs, results, logs, typed, now>>

\* The clock's second passes while the pipeline runs
Tick ==
  /\ bpc = "loop"
  /\ now < MaxClock
  /\ now' = now + 1
  /\ UNCHANGED <<probe, cfgvars, livevars, bpc, inputs, results, logs, rendered, typed>>

\* "Run Translation Pipeline" clicked with typed text (lines 295-317)
TypedRun ==
  /\ bpc = "idle"
  /\ \E typed_text \in {"", "hello"}, otr \in Outcomes, otts \in Outcomes, sv \in Outcomes :
       IF typed_text = ""
       THEN /\ typed' = None
            /\ logs' = <<>>
            /\ rendered' = <<Err("Type text or provide audio.")>>
       ELSE LET tr == translate_text(typed_text, otr)
                y  == IF tts_choice = "gTTS"
                      THEN tts_gtts_and_save(tr.val, translated_path(".mp3"), otts)
                      ELSE tts_pyttsx3_and_save(tr.val, translated_path(".wav"), otts)
            IN /\ typed' = [source_text |-> typed_text, translated |-> tr.val, tts_file |-> y.val]
               /\ logs' = <<tr.log \o y.log>>
               /\ rendered' = <<[shown |-> "result", text |-> tr.val, audio |-> y.val,
                                 saved |-> IF y.val # None /\ save_output /\ sv = "ok"
                                           THEN y.val ELSE None]>>
  /\ bpc' = "typed"
  /\ inputs' = <<>>
  /\ results' = <<>>
  /\ UNCHANGED <<probe, cfgvars, livevars, now>>

(***************************************************************************)
(* Start / stop controls (lines 356-357, 423-433): one script execution    *)
(***************************************************************************)

\* line 357, executed by every script execution
LiveFlagInit == FALSE

\* line 426: the guard reads the dict line 357 has just made
StartAccepted(run) == ~run

\* line 431
StopAccepted(run) == run

\* The Start button clicked: lines 357 and 426-429.  The thread spawned takes
\* the least free slot; its flag is the dict this execution made.  A button is
\* clicked when the execution of the click before it has ended.
ClickStart ==
  /\ script = "idle"
  /\ \E t \in Threads :
       /\ pc[t] = "idle"
       /\ \A u \in Threads : u < t => pc[u] # "idle"
       /\ IF StartAccepted(LiveFlagInit)
          THEN /\ flag' = [flag EXCEPT ![t] = TRUE]
               /\ Goto(t, "mic")
               /\ Show(t, <<>>)
               /\ script' = "spawned"
          ELSE UNCHANGED <<flag, pc, ev, script>>
  /\ ui' = <<>>
  /\ UNCHANGED <<probe, cfgvars, batchvars, src_text, detected, translated, tts_file, playing, pev, stopped>>

\* line 430: the Start execution, back from Thread.start(), shows its message.
\* The spawned thread may have taken any number of steps by then.
StartShown ==
  /\ script = "spawned"
  /\ script' = "idle"
  /\ ui' = <<Success("Live translation started")>>
  /\ UNCHANGED <<probe, cfgvars, batchvars, pc, flag, src_text, detected, translated, tts_file, ev, playing, pev, stopped>>

\* The Stop button clicked: lines 357 and 431-433.  When the guard passes,
\* line 432 writes the dict this execution made, which no thread reads: the
\* flag of every thread is as it was.  stopped records the request.
ClickStop ==
  /\ script = "idle"
  /\ ui' = IF StopAccepted(LiveFlagInit)
           THEN <<Success("Stopping live translation")>>
           ELSE <<>>
  /\ stopped' = stopped \cup LiveThreads
  /\ UNCHANGED <<probe, cfgvars, batchvars, pc, flag, src_text, detected, translated, tts_file, ev, playing, pev, script>>

(***************************************************************************)
(* Specification of the live session                                       *)
(***************************************************************************)

Settings ==
  /\ stt_backend \in {"Google", "Whisper"}
  /\ tts_choice \in {"gTTS", "pyttsx3"}
  /\ use_lang_detect \in BOOLEAN
  /\ has_pyttsx3 \in BOOLEAN
  /\ has_whisper \in BOOLEAN

Fresh ==
  /\ pc = [t \in Threads |-> "idle"]
  /\ flag = [t \in Threads |-> FALSE]
  /\ src_text = [t \in Threads |-> None]
  /\ detected = [t \in Threads |-> None]
  /\ translated = [t \in Threads |-> None]
  /\ tts_file = [t \in Threads |-> None]
  /\ ev = [t \in Threads |-> <<>>]
  /\ playing = {}
  /\ pev = <<>>
  /\ ui = <<>>
  /\ script = "idle"
  /\ stopped = {}
  /\ bpc = "idle"
  /\ inputs = <<>>
  /\ results = <<>>
  /\ logs = <<>>
  /\ rendered = <<>>
  /\ typed = None
  /\ now = 0
  /\ probe = [fn |-> "none", text |-> "", res |-> Ret("", <<>>)]

\* save_output and the working directory are read by the batch pipeline only
Init == Settings /\ save_output = TRUE /\ cwd_is_tempdir = FALSE /\ Fresh

InitBatch == Settings /\ save_output \in BOOLEAN /\ cwd_is_tempdir \in BOOLEAN /\ Fresh

Next ==
  \/ ClickStart
  \/ StartShown
  \/ ClickStop
  \/ \E t \in Threads : live_loop(t)
  \/ PlayEnd

\* Any number of Start and Stop requests, up to MaxThreads loops
Spec == Init /\ [][Next]_vars

\* One live session: Start is clicked once
FirstStart == ClickStart /\ \A t \in Threads : pc[t] = "idle"

NextSession ==
  \/ FirstStart
  \/ StartShown
  \/ ClickStop
  \/ \E t \in Threads : live_loop(t)
  \/ PlayEnd

SpecSession == Init /\ [][NextSession]_vars

\* A started thread is scheduled: the loop's steps all terminate; so is the
\* script execution that started it
FairSession ==
  /\ SpecSession
  /\ WF_vars(StartShown)
  /\ \A t \in Threads : WF_vars(live_loop(t))

\* The "Run Translation Pipeline" executions
NextBatch == NewExecution \/ RunPipeline \/ BatchItem \/ BatchRender \/ TypedRun \/ Tick

SpecBatch == InitBatch /\ [][NextBatch]_vars

\* translate_text called on its own, on any text
Texts == {"", "hello", "good morning"}

TranslateCall ==
  /\ \E text \in Texts, o \in Outcomes :
       probe' = [fn |-> "translate_text", text |-> text, res |-> translate_text(text, o)]
  /\ UNCHANGED <<cfgvars, livevars, batchvars>>

NextTranslate == TranslateCall

SpecTranslate == Init /\ [][NextTranslate]_vars

(***************************************************************************)
(* Properties                                                              *)
(***************************************************************************)

Has(log, e) == \E i \in 1..Len(log) : log[i] = e
HasKind(log, kind, whats) == \E i \in 1..Len(log) : log[i].kind = kind /\ log[i].what \in whats

SynthBackends == {"gTTS", "pyttsx3"}
SttFaults == {"AudioFile", "recognize_google", "whisper"}

\* C1: when Start is requested twice with no Stop in between, the second
\* request spawns nothing: of the loops alive, at most one has seen no Stop
\* request since it was started.
C1_SecondStartSpawnsNothing ==
  Cardinality({t \in LiveThreads : t \notin stopped}) <= 1

\* C2: a loop that was running when Stop was requested begins no new cycle:
\* its next test of the run flag (line 371) does not lead to a capture.
C2_NoNewCycleAfterStop ==
  [][\A t \in stopped : pc[t] = "check" => pc'[t] # "capture"]_vars

\* C3: at most one live_loop thread is alive in every reachable state.
C3_AtMostOneLoop == Cardinality(LiveThreads) <= 1

\* The positions inside the try of lines 372-420
CyclePcs == {"capture", "stt", "sleep_empty", "detect", "translate", "show",
             "synth", "dispatch", "pause", "backoff"}

\* The calls of a cycle whose exception reaches live_loop
CycleFaults == {"capture", "AudioFile", "st.write", "Thread.start"}

\* C4: an exception raised by a step of a cycle is caught in live_loop: a
\* warning is shown and the loop backs off (line 420), after which it tests
\* the run flag again (line 371); no step of a cycle ends the thread or
\* writes the run flag.
C4_CycleErrorIsSurvived ==
  [][\A t \in Threads :
       /\ pc[t] \in CyclePcs =>
            /\ pc'[t] \notin {"done", "crashed", "idle"}
            /\ flag'[t] = flag[t]
       /\ (pc[t] \in CyclePcs /\ pc'[t] # pc[t] /\ HasKind(ev'[t], "fault", CycleFaults)) =>
            /\ pc'[t] = "backoff"
            /\ Has(ev'[t], Warn("Live loop error", ""))
       /\ (pc[t] = "backoff" /\ pc'[t] # "backoff") => pc'[t] = "check"
  ]_vars

\* C4 witness: a step of a cycle raised and the loop is in its backoff, the
\* warning shown and the run flag still true.
C4_Witness ==
  \E t \in Threads :
    /\ pc[t] = "backoff"
    /\ flag[t]
    /\ HasKind(ev[t], "fault", CycleFaults)
    /\ Has(ev[t], Warn("Live loop error", ""))

\* C5: no synthesis backend is ever invoked with empty text, in the live
\* cycle, in a batch item or for typed text.
C5_EmptyTextNeverSynthesized ==
  /\ \A t \in Threads : \A i \in 1..Len(ev[t]) :
       ~(ev[t][i].kind = "call" /\ ev[t][i].what \in SynthBackends /\ ev[t][i].arg = "")
  /\ \A k \in 1..Len(logs) : \A i \in 1..Len(logs[k]) :
       ~(logs[k][i].kind = "call" /\ logs[k][i].what \in SynthBackends /\ logs[k][i].arg = "")

\* Item k of the batch failed at the transcription step
SttFailed(k) == k <= Len(logs) /\ HasKind(logs[k], "fault", SttFaults)

\* C6: a batch in which an item fails at the transcription step ends with one
\* result per input, in input order, the failed item marked with an error.
C6_BatchIsolatesSttFailure ==
  (bpc \in {"rendered", "aborted"} /\ \E k \in 1..Len(inputs) : SttFailed(k)) =>
    /\ bpc = "rendered"
    /\ Len(results) = Len(inputs)
    /\ \A i \in 1..Len(results) : results[i].path = i
    /\ \A k \in 1..Len(results) : SttFailed(k) => results[k].res.error # None

\* The capture device of thread t could not be acquired (lines 363, 369)
DeviceFailed(t) == Has(ev[t], Fault("Microphone")) \/ Has(ev[t], Fault("open"))

\* C7: when the capture device cannot be acquired, the loop thread ends with
\* its run flag false and an error reported.
C7_DeviceFailureReturnsToIdle ==
  \A t \in Threads :
    DeviceFailed(t) =>
      /\ pc[t] = "done"
      /\ ~flag[t]
      /\ Has(ev[t], Err("Microphone not available"))

\* C8: a loop that was running when Stop was requested eventually exits.
C8_StopLeadsToExit ==
  \A t \in Threads : (t \in stopped) ~> ~Alive(t)

\* Item i of the batch was transcribed, by a backend that did not fail, to ""
SilentItem(i) ==
  /\ inputs[i] = "silence"
  /\ HasKind(logs[i], "call", {"recognize_google", "whisper"})
  /\ ~HasKind(logs[i], "fault", SttFaults)

\* C9: a batch input that transcribes to empty text yields a result that is not
\* an error, with empty source and translated text, without a call of the
\* translation or a synthesis backend.
C9_SilenceIsNotAnError ==
  \A i \in 1..Len(results) :
    SilentItem(i) =>
      /\ results[i].res.error = None
      /\ results[i].res.source_text = ""
      /\ results[i].res.translated = ""
      /\ ~HasKind(logs[i], "call", SynthBackends \cup {"GoogleTranslator"})
      /\ bpc = "rendered" => rendered[i].shown # "error"

\* The offline backend or the transcoding of its wav file failed
OfflineFailed(log) == HasKind(log, "fault", {"pyttsx3", "transcode"})

\* C10: with the offline backend, a failure of the backend call or of the
\* transcoding yields no artifact and a warning, in the live cycle and in a
\* batch item.
C10_OfflineFailureYieldsNone ==
  /\ \A t \in Threads :
       (pc[t] = "dispatch" /\ OfflineFailed(ev[t])) =>
         /\ tts_file[t] = None
         /\ HasKind(ev[t], "warning", {"pyttsx3 error", "transcode error"})
  /\ \A i \in 1..Len(results) :
       (results[i].res.error = None /\ OfflineFailed(logs[i])) =>
         /\ results[i].res.tts_file = None
         /\ HasKind(logs[i], "warning", {"pyttsx3 error", "transcode error"})

\* C11: any two items of one batch run that each produce an artifact write to
\* distinct artifact paths, so that none overwrites, plays or persists the
\* artifact of another.
C11_ArtifactPathsDistinct ==
  \A i \in 1..Len(results) : \A j \in 1..Len(results) :
    (i # j /\ results[i].res.error = None /\ results[j].res.error = None
           /\ results[i].res.tts_file # None /\ results[j].res.tts_file # None) =>
      results[i].res.tts_file # results[j].res.tts_file

\* C12: playback never blocks the live loop.  The dispatch leaves the artifact
\* with a worker and the loop goes on to its pause; a loop that is alive can
\* always take its next step, whatever is being played.  A worker that ends
\* changes nothing of any loop (position, run flag), and a playback failure is
\* reported by a warning that names the artifact's path.
C12_PlaybackNeverBlocks ==
  /\ [](\A t \in Threads : Alive(t) => ENABLED live_loop(t))
  /\ [][/\ \A t \in Threads :
              (pc[t] = "dispatch" /\ pc'[t] = "pause" /\ tts_file[t] # None) =>
                tts_file[t] \in playing'
        /\ (pev' # pev \/ (playing' # playing /\ playing' \subseteq playing)) =>
              /\ pc' = pc /\ flag' = flag /\ ev' = ev
              /\ HasKind(pev', "call", {"play"})
              /\ HasKind(pev', "fault", {"play"}) =>
                    \E p \in playing : Has(pev', Warn("Audio playback error", p))
       ]_vars

\* C12 witness: a loop captures its next chunk, its run flag true, while an
\* artifact is still being played and after a worker reported a failure.
C12_Witness ==
  \E t \in Threads :
    /\ pc[t] = "capture"
    /\ flag[t]
    /\ playing # {}
    /\ HasKind(pev, "warning", {"Audio playback error"})

\* C13: translate_text of the empty text is the empty text, with no call of
\* the translation backend; on a text that is not empty a failure of the
\* backend is caught: the result is the empty text and nothing is raised.
C13_EmptyTranslationSkipsBackend ==
  probe.fn = "translate_text" =>
    /\ ~probe.res.raised
    /\ probe.text = "" =>
         /\ probe.res.val = ""
         /\ ~HasKind(probe.res.log, "call", {"GoogleTranslator"})
    /\ HasKind(probe.res.log, "fault", {"GoogleTranslator"}) =>
         /\ probe.res.val = ""
         /\ HasKind(probe.res.log, "warning", {"Translation error"})

\* C13 witness: translate_text was called with the empty text.
C13_Witness ==
  /\ probe.fn = "translate_text"
  /\ probe.text = ""
  /\ probe.res.val = ""

\* Where a cycle step of live_loop may lead (other than to itself)
CycleSuccessors(loc) ==
  CASE loc = "capture"     -> {"stt", "backoff"}
    [] loc = "stt"         -> {"sleep_empty", "detect", "translate", "backoff"}
    [] loc = "sleep_empty" -> {"check"}
    [] loc = "detect"      -> {"translate"}
    [] loc = "translate"   -> {"show"}
    [] loc = "show"        -> {"synth", "backoff"}
    [] loc = "synth"       -> {"dispatch"}
    [] loc = "dispatch"    -> {"pause", "backoff"}
    [] loc = "pause"       -> {"check"}
    [] loc = "backoff"     -> {"check"}

\* The backends a cycle step may call
CycleCalls(loc) ==
  CASE loc = "stt"       -> {"recognize_google", "whisper"}
    [] loc = "detect"    -> {"detect"}
    [] loc = "translate" -> {"GoogleTranslator"}
    [] loc = "synth"     -> {"gTTS", "pyttsx3", "transcode"}
    [] OTHER             -> {}

\* C14: the steps of a live cycle come in the order capture, transcribe,
\* detect (when enabled), translate, synthesize, dispatch, pause, each calling
\* its own backends only; after an empty transcript the cycle only pauses;
\* playback is dispatched by the dispatch step alone, for the artifact the
\* synthesis returned, and not when it returned None.
C14_CycleOrder ==
  [][\A t \in Threads :
       (pc[t] \in CyclePcs /\ pc'[t] # pc[t]) =>
         /\ pc'[t] \in CycleSuccessors(pc[t])
         /\ \A i \in 1..Len(ev'[t]) :
              ev'[t][i].kind = "call" => ev'[t][i].what \in CycleCalls(pc[t])
         /\ pc[t] = "stt" =>
              /\ pc'[t] = "sleep_empty" => src_text'[t] = ""
              /\ pc'[t] \in {"detect", "translate"} => src_text'[t] \notin {"", None}
              /\ pc'[t] = "detect" => use_lang_detect
              /\ pc'[t] = "translate" => ~use_lang_detect
         /\ playing' # playing =>
              /\ pc[t] = "dispatch" /\ pc'[t] = "pause"
              /\ tts_file[t] # None
              /\ playing' = playing \cup {tts_file[t]}
         /\ (pc[t] = "dispatch" /\ tts_file[t] = None) => (pc'[t] = "pause" /\ playing' = playing)
  ]_vars

\* C14 witness: a cycle went through every step, detection included, and is
\* at its pause with its artifact dispatched for playback.
C14_Witness ==
  \E t \in Threads :
    /\ pc[t] = "pause"
    /\ use_lang_detect
    /\ detected[t] # None
    /\ translated[t] \notin {"", None}
    /\ tts_file[t] # None
    /\ tts_file[t] \in playing

\* The session is Running: a loop is alive that has seen no Stop request
Running == \E t \in LiveThreads : t \notin stopped

\* C15: a Stop request while no loop is alive and a Start request while the
\* session is Running change neither a run flag nor the live loops nor the
\* playback workers.
C15_RejectedRequestsAreNoOps ==
  [][((ClickStart /\ Running) \/ (ClickStop /\ LiveThreads = {})) =>
       UNCHANGED <<pc, flag, playing>>]_vars

\* C16: a run flag becomes true only by a Start request that spawns its loop,
\* and false only by a Stop request or by the failure to construct the
\* microphone (line 366); no step of a cycle writes it, and a loop that has
\* ended stays ended.
C16_FlagWriters ==
  [][\A t \in Threads :
       /\ (~flag[t] /\ flag'[t]) =>
            (pc[t] = "idle" /\ pc'[t] = "mic" /\ script = "idle" /\ script' = "spawned")
       /\ (flag[t] /\ ~flag'[t]) =>
            \/ pc[t] = "mic" /\ pc'[t] = "done" /\ Has(ev'[t], Fault("Microphone"))
            \/ pc'[t] = pc[t] /\ ui' = <<Success("Stopping live translation")>>
       /\ pc[t] \in CyclePcs => flag'[t] = flag[t]
       /\ pc[t] \in {"done", "crashed"} => pc'[t] = pc[t]
  ]_vars

\* C16 witness: a run flag was set by Start and cleared by the failure to
\* construct the microphone; its loop has ended.
C16_Witness ==
  \E t \in Threads :
    /\ pc[t] = "done"
    /\ ~flag[t]
    /\ Has(ev[t], Fault("Microphone"))
    /\ ui = <<Success("Live translation started")>>

====
